---------------------------- MODULE Spec2Model ----------------------------
(***************************************************************************)
(* Supply-chain data integration system: the inventory simulator           *)
(* (ExternalAPIHandler.simulate_inventory_activity, in its two copies      *)
(* src/ingestion/api_ingestor.py and src/data_extraction/api_connector.py),*)
(* the metrics enrichment (_append_inventory_metrics) and the analytics of *)
(* src/data_processing/supply_chain_metrics.py (LogisticsAnalytics).       *)
(*                                                                         *)
(* Numbers the code keeps as floats are kept here in fixed point:          *)
(*   - factors (seasonal, noise, price variation) in percent,              *)
(*   - base_demand in thousandths,                                         *)
(*   - prices in hundredths,                                               *)
(*   - quotients (days_of_inventory, fill_rate, annualized_turnover) as    *)
(*     exact fractions <<numerator, denominator>>, with <<1, 0>> for +inf  *)
(*     and <<0, 0>> for NaN.                                               *)
(***************************************************************************)
EXTENDS Integers, Sequences, FiniteSets, TLC

(***************************************************************************)
(* Bounds of the model.                                                    *)
(***************************************************************************)
MaxProducts == 2
MaxDays == 3
MaxFreq == 3
MaxRows == 2
MaxQty == 3
MaxOrders == 3
MaxLead == 4

(***************************************************************************)
(* Program constants.                                                      *)
(***************************************************************************)
IngestorBaseDemandLo == 5
IngestorBaseDemandHi == 20
IngestorStockLo == 100
IngestorStockHi == 300
IngestorRestockLo == 75
IngestorRestockHi == 150
WeekendSeasonalPct == 120
WeekdaySeasonalPct == 90
FirstWeekendDay == 5
ConnectorBaseDemandLo == 1
ConnectorBaseDemandHi == 10
ConnectorStockLo == 50
ConnectorStockHi == 200
ConnectorRestockLo == 50
ConnectorRestockHi == 100
PriceFactorLoPct == 95
PriceFactorHiPct == 105
StockoutDays == 3
DaysPerYear == 365

\* Python's None, as a value of its own among the records of the model.
None == [none |-> TRUE]
Inf == <<1, 0>>
NaN == <<0, 0>>

Max(a, b) == IF a >= b THEN a ELSE b
Min(a, b) == IF a <= b THEN a ELSE b

(***************************************************************************)
(* Python arithmetic.                                                      *)
(***************************************************************************)
\* int(x) of the quotient a / b (b > 0): truncation towards zero.
PyInt(a, b) == IF a >= 0 THEN a \div b ELSE -((-a) \div b)

\* a % b for b # 0: the result takes the sign of the divisor.
PyMod(a, b) == IF b > 0 THEN a % b ELSE -((-a) % (-b))

\* trend_factor ** (1 / simulation_days) with trend_factor = 1.05, in
\* thousandths, for the horizons the model runs (1.05, 1.0247, 1.0164, ...).
TrendStepMilli(n) ==
    CASE n = 1 -> 1050
      [] n = 2 -> 1024
      [] n = 3 -> 1016
      [] n = 4 -> 1012
      [] OTHER -> 1009

(***************************************************************************)
(* Exact fractions.                                                        *)
(***************************************************************************)
Frac(n, d) == <<n, d>>
IsFinite(q) == q[2] > 0
FracLess(p, q) == p[1] * q[2] < q[1] * p[2]
FracLeq(p, q) == p[1] * q[2] <= q[1] * p[2]
FracEq(p, q) == p[1] * q[2] = q[1] * p[2]


(***************************************************************************)
(* State.                                                                  *)
(***************************************************************************)
VARIABLES
    impl,                 \* which copy of simulate_inventory_activity runs
    product_df,           \* the product catalog, in order
    simulation_days,      \* the simulation_days argument
    RESTOCKING_FREQUENCY, \* settings / config value
    DEMAND_VARIABILITY,   \* settings / config value, in percent
    now_day,              \* datetime.now() as a day number (day 0 is a Monday)
    pc,                   \* "run" while the handler executes, "done" after return
    item_idx,             \* position of the product loop (0 = not started)
    day,                  \* position of the day loop
    base_demand,          \* api_ingestor: running base demand, in thousandths
    inventory_records,    \* the list the loops append to
    stock_today,          \* the stock a pass starts from (api_ingestor names it
                          \* stock_level before the demand is subtracted)
    result,               \* the returned DataFrame, or None
    rng,                  \* the random source: the noise factors it has given
                          \* since it was seeded, and how many of them the
                          \* current run has taken
    previous_results,     \* what the earlier runs under the same seed returned
    stock_samples,        \* the passes that drew a stock from the initial-stock
                          \* range: [product_id, day] per random.randint call
    worker_draws,         \* the interleaved run alone: per product, the random
                          \* numbers its passes have taken, one entry a pass
    df,                   \* enrichment alone: the DataFrame handed in
    enriched,             \* enrichment alone: the returned DataFrame
    df_orders,            \* the orders DataFrame
    LEAD_TIME_THRESHOLDS, \* config value: [excellent, good]
    lead_stats,           \* what compute_lead_time_stats returned
    df_inventory,         \* the inventory DataFrame handed to the analytics
    df_returns,           \* the returns DataFrame, or None
    FILL_RATE_THRESHOLDS, \* config value: [excellent, good, poor], in percent
    days_delta,           \* the array compute_cycle_time drew, None before
    metrics               \* what the last analytics call returned

simVars == <<impl, product_df, simulation_days, RESTOCKING_FREQUENCY,
             DEMAND_VARIABILITY, now_day, pc, item_idx, day, base_demand,
             inventory_records, stock_today, result, rng, previous_results,
             stock_samples, worker_draws>>
enrichVars == <<df, enriched>>
leadVars == <<df_orders, LEAD_TIME_THRESHOLDS, lead_stats>>
aggVars == <<df_inventory, df_returns, FILL_RATE_THRESHOLDS, days_delta,
             metrics>>
vars == <<simVars, enrichVars, leadVars, aggVars>>

(***************************************************************************)
(* Data model.                                                             *)
(***************************************************************************)
SourceFields == {"date", "product_id", "product_name", "category",
                 "daily_demand", "stock_level", "restock_amount", "restocked",
                 "price", "original_price", "price_change_pct"}
DerivedFields == {"days_of_inventory", "stockout_risk", "annualized_turnover",
                  "fill_rate"}

\* A row of the product DataFrame: id, title, category, price (hundredths).
Product(i) == [id |-> i,
               title |-> IF i = 1 THEN "Backpack" ELSE "Ring",
               category |-> IF i = 1 THEN "men's clothing" ELSE "jewelery",
               price |-> 1000 * i]

\* pd.DataFrame(list_of_dicts): the columns are the keys of the dicts, so a
\* DataFrame built from the empty list has no columns at all.
DataFrame(records) ==
    [columns |-> IF records = <<>> THEN {} ELSE DOMAIN records[1],
     rows |-> records]

(***************************************************************************)
(* _append_inventory_metrics, column by column.                            *)
(***************************************************************************)
\* The quotient taken without the zero-demand branch.
DaysOfInventoryUnguarded(demand, stock) == Frac(stock, demand)

\* np.where(daily_demand > 0, stock_level / daily_demand, np.inf)
DaysOfInventory(demand, stock) ==
    IF demand > 0 THEN Frac(stock, demand) ELSE Inf

\* days_of_inventory < 3 (false for +inf and for NaN)
StockoutRisk(doi) == IsFinite(doi) /\ FracLess(doi, Frac(StockoutDays, 1))

\* The quotient taken without the zero-stock branch.
AnnualizedTurnoverUnguarded(demand, stock) == Frac(demand * DaysPerYear, stock)

\* np.where(stock_level > 0, (daily_demand * 365) / stock_level, 0)
AnnualizedTurnover(demand, stock) ==
    IF stock > 0 THEN Frac(demand * DaysPerYear, stock) ELSE Frac(0, 1)

\* The ratio without np.minimum(1.0, ...).
FillRateUncapped(demand, stock) ==
    IF demand > 0 THEN Frac(stock, demand) ELSE Frac(1, 1)

\* np.where(daily_demand > 0, np.minimum(1.0, stock_level / daily_demand), 1.0)
FillRate(demand, stock) ==
    IF demand > 0
    THEN IF FracLeq(Frac(1, 1), Frac(stock, demand))
         THEN Frac(1, 1) ELSE Frac(stock, demand)
    ELSE Frac(1, 1)

\* df['daily_demand'] / df['stock_level'] raise KeyError when the column is
\* not there.
RaisesKeyError(frame) ==
    ~ ({"daily_demand", "stock_level"} \subseteq frame.columns)

EnrichRow(r) ==
    LET doi == DaysOfInventory(r.daily_demand, r.stock_level) IN
    [f \in DOMAIN r \cup DerivedFields |->
        CASE f = "days_of_inventory" -> doi
          [] f = "stockout_risk" -> StockoutRisk(doi)
          [] f = "annualized_turnover" ->
                AnnualizedTurnover(r.daily_demand, r.stock_level)
          [] f = "fill_rate" -> FillRate(r.daily_demand, r.stock_level)
          [] OTHER -> r[f]]

\* Rows without demand filtered out before the columns are computed.
AppendInventoryMetricsDroppingRows(frame) ==
    [columns |-> frame.columns \cup DerivedFields,
     rows |-> LET kept == SelectSeq(frame.rows, LAMBDA r : r.daily_demand > 0)
              IN [i \in DOMAIN kept |-> EnrichRow(kept[i])]]

\* The four column assignments, applied to a frame that has the two columns.
AppendInventoryMetrics(frame) ==
    [columns |-> frame.columns \cup DerivedFields,
     rows |-> [i \in DOMAIN frame.rows |-> EnrichRow(frame.rows[i])]]

(***************************************************************************)
(* The ambient random source.  The noise factor, which decides whether a   *)
(* day has demand, takes either end of its range; a base demand, an        *)
(* initial stock, a refill and a price factor take one value of theirs.    *)
(***************************************************************************)
\* random.randint(lo, hi) and random.uniform(lo, hi)
Draws(lo, hi) == {lo, hi}
LowDraw(lo, hi) == {lo}
HighDraw(lo, hi) == {hi}

\* random.uniform(1 - DEMAND_VARIABILITY, 1 + DEMAND_VARIABILITY), in percent
NoiseDraws(variability) == Draws(100 - variability, 100 + variability)

\* random.uniform(0.95, 1.05), in percent
PriceFactorDraws == LowDraw(PriceFactorLoPct, PriceFactorHiPct)

\* The source is a stream fixed by its seed: a run that comes after a
\* re-seeding gets the factors the stream has already given, in order, and
\* a run that goes past them gets fresh ones.
RngGives(noise) ==
    rng.pos < Len(rng.tape) => noise = rng.tape[rng.pos + 1]
RngAfter(noise) ==
    [tape |-> IF rng.pos < Len(rng.tape) THEN rng.tape
              ELSE Append(rng.tape, noise),
     pos |-> rng.pos + 1]

(***************************************************************************)
(* simulate_inventory_activity: the parts both copies share.               *)
(***************************************************************************)
\* simulation_start = datetime.now() - timedelta(days=simulation_days)
SimulationStart == now_day - simulation_days

\* simulation_date.weekday(): Monday is 0
Weekday(date) == date % 7

\* The clamp left out: the record keeps whatever the recurrence gave.
ClampStockMissing(stock) == stock

\* stock_level = max(0, stock_level)
ClampStock(stock) == Max(0, stock)

\* the record dict appended to inventory_records
Record(item, date, demand, stock, restock_qty, was_restocked, price_pct) ==
    LET price_variation == (item.price * price_pct) \div 100 IN
    [date |-> date,
     product_id |-> item.id,
     product_name |-> item.title,
     category |-> item.category,
     daily_demand |-> demand,
     stock_level |-> stock,
     restock_amount |-> restock_qty,
     restocked |-> was_restocked,
     price |-> price_variation,
     original_price |-> item.price,
     price_change_pct |-> ((price_variation - item.price) * 100) \div item.price]

\* if day == 0: stock = random.randint(lo, hi); else: stock =
\* prev_entry['stock_level'] if prev_entry else random.randint(lo, hi)
\* The passes that have drawn from the initial-stock range, this one included.
SamplesAfter(id, d, prev_entry) ==
    IF d = 0 \/ prev_entry = None
    THEN Append(stock_samples, [product_id |-> id, day |-> d])
    ELSE stock_samples

SetMax(S) == CHOOSE x \in S : \A y \in S : y <= x
SetMin(S) == CHOOSE x \in S : \A y \in S : x <= y

(***************************************************************************)
(* src/ingestion/api_ingestor.py: products outside, days inside.           *)
(***************************************************************************)
\* seasonal_factor = 1.2 if simulation_date.weekday() >= 5 else 0.9
SeasonalPct(date) ==
    IF Weekday(date) >= FirstWeekendDay THEN WeekendSeasonalPct
    ELSE WeekdaySeasonalPct

\* demand = int(base_demand * seasonal_factor * random_factor)
IngestorDemand(base, seasonal_pct, noise_pct) ==
    PyInt(base * seasonal_pct * noise_pct, 1000 * 100 * 100)

\* The lookup without its product_id test: the record appended last.
IngestorPrevEntryAnyProduct(id) ==
    IF inventory_records = <<>> THEN None
    ELSE inventory_records[Len(inventory_records)]

\* next(r for r in reversed(inventory_records) if r['product_id'] == id), None
IngestorPrevEntry(id) ==
    LET hits == {i \in DOMAIN inventory_records :
                    inventory_records[i].product_id = id} IN
    IF hits = {} THEN None ELSE inventory_records[SetMax(hits)]

\* The test without its modulo: a restock on every day after day 0.
IngestorRestockEveryDay(d, freq) == d > 0

\* day > 0 and day % RESTOCKING_FREQUENCY == 0 (the modulo is evaluated only
\* when day > 0)
IngestorRestockDue(d, freq) == d > 0 /\ PyMod(d, freq) = 0

IngestorInnerDone == item_idx = 0 \/ day >= simulation_days

\* for _, item in product_df.iterrows(): base_demand = random.uniform(5, 20)
IngestorNextItem ==
    /\ pc = "run" /\ impl = "ingestor"
    /\ IngestorInnerDone
    /\ item_idx < Len(product_df)
    /\ item_idx' = item_idx + 1
    /\ day' = 0
    /\ \E b \in HighDraw(IngestorBaseDemandLo, IngestorBaseDemandHi) :
          base_demand' = b * 1000
    /\ UNCHANGED <<impl, product_df, simulation_days, RESTOCKING_FREQUENCY,
                   DEMAND_VARIABILITY, now_day, pc, inventory_records,
                   stock_today, result, rng, previous_results,
                   stock_samples, worker_draws>>
    /\ UNCHANGED <<enrichVars, leadVars, aggVars>>

\* One pass of the body of `for day in range(simulation_days)`.
IngestorDay ==
    /\ pc = "run" /\ impl = "ingestor"
    /\ item_idx >= 1 /\ day < simulation_days
    /\ LET item == product_df[item_idx]
           simulation_date == SimulationStart + day
           prev_entry == IngestorPrevEntry(item.id)
       IN
       IF day > 0 /\ RESTOCKING_FREQUENCY = 0
       THEN \* ZeroDivisionError, caught by the except clause: return None
            /\ pc' = "done"
            /\ result' = None
            /\ \E noise \in NoiseDraws(DEMAND_VARIABILITY) :
                  RngGives(noise) /\ rng' = RngAfter(noise)
            /\ stock_samples' = SamplesAfter(item.id, day, prev_entry)
            /\ UNCHANGED <<day, base_demand, inventory_records, stock_today>>
       ELSE \E noise \in NoiseDraws(DEMAND_VARIABILITY),
               drawn \in LowDraw(IngestorStockLo, IngestorStockHi),
               refill \in LowDraw(IngestorRestockLo, IngestorRestockHi),
               price_pct \in PriceFactorDraws :
            LET demand == IngestorDemand(base_demand,
                                         SeasonalPct(simulation_date), noise)
                start == IF day = 0 \/ prev_entry = None
                         THEN drawn ELSE prev_entry.stock_level
                due == IngestorRestockDue(day, RESTOCKING_FREQUENCY)
                restock_qty == IF due THEN refill ELSE 0
                stock_level == ClampStock(start - demand + restock_qty)
            IN
            /\ base_demand' =
                  (base_demand * TrendStepMilli(simulation_days)) \div 1000
            /\ stock_today' = start
            /\ stock_samples' = SamplesAfter(item.id, day, prev_entry)
            /\ inventory_records' =
                  Append(inventory_records,
                         Record(item, simulation_date, demand, stock_level,
                                restock_qty, due, price_pct))
            /\ day' = day + 1
            /\ RngGives(noise) /\ rng' = RngAfter(noise)
            /\ UNCHANGED <<pc, result>>
    /\ UNCHANGED <<impl, product_df, simulation_days, RESTOCKING_FREQUENCY,
                   DEMAND_VARIABILITY, now_day, item_idx, previous_results,
                   worker_draws>>
    /\ UNCHANGED <<enrichVars, leadVars, aggVars>>

(***************************************************************************)
(* src/data_extraction/api_connector.py: days outside, products inside.    *)
(***************************************************************************)
\* adjusted_demand = max(0, int(base_demand * random.uniform(1 - V, 1 + V)))
ConnectorDemand(base, noise_pct) == Max(0, PyInt(base * noise_pct, 100))

\* The lookup with the date of the pass itself in place of the day before.
ConnectorPrevEntrySameDay(id, date) ==
    LET hits == {i \in DOMAIN inventory_records :
                    /\ inventory_records[i].product_id = id
                    /\ inventory_records[i].date = date} IN
    IF hits = {} THEN None ELSE inventory_records[SetMin(hits)]

\* next(r for r in inventory_records if r['product_id'] == id and
\*      r['date'] == simulation_date - timedelta(days=1)), None
ConnectorPrevEntry(id, date) ==
    LET hits == {i \in DOMAIN inventory_records :
                    /\ inventory_records[i].product_id = id
                    /\ inventory_records[i].date = date - 1} IN
    IF hits = {} THEN None ELSE inventory_records[SetMin(hits)]

\* day % RESTOCKING_FREQUENCY == 0
ConnectorRestockDue(d, freq) == PyMod(d, freq) = 0

ConnectorInnerDone == day = -1 \/ item_idx >= Len(product_df)

\* for day in range(simulation_days): simulation_date = ...
ConnectorNextDay ==
    /\ pc = "run" /\ impl = "connector"
    /\ ConnectorInnerDone
    /\ day + 1 < simulation_days
    /\ day' = day + 1
    /\ item_idx' = 0
    /\ UNCHANGED <<impl, product_df, simulation_days, RESTOCKING_FREQUENCY,
                   DEMAND_VARIABILITY, now_day, pc, base_demand,
                   inventory_records, stock_today, result, rng,
                   previous_results, stock_samples, worker_draws>>
    /\ UNCHANGED <<enrichVars, leadVars, aggVars>>

\* One pass of the body of `for _, item in product_df.iterrows()`.
ConnectorItem ==
    /\ pc = "run" /\ impl = "connector"
    /\ day >= 0 /\ item_idx < Len(product_df)
    /\ LET item == product_df[item_idx + 1]
           simulation_date == SimulationStart + day
           prev_entry == ConnectorPrevEntry(item.id, simulation_date)
       IN
       IF RESTOCKING_FREQUENCY = 0
       THEN \* ZeroDivisionError, caught by the except clause: return None
            /\ pc' = "done"
            /\ result' = None
            /\ \E noise \in NoiseDraws(DEMAND_VARIABILITY) :
                  RngGives(noise) /\ rng' = RngAfter(noise)
            /\ stock_samples' = SamplesAfter(item.id, day, prev_entry)
            /\ UNCHANGED <<item_idx, inventory_records, stock_today>>
       ELSE \E base \in HighDraw(ConnectorBaseDemandLo, ConnectorBaseDemandHi),
               noise \in NoiseDraws(DEMAND_VARIABILITY),
               drawn \in LowDraw(ConnectorStockLo, ConnectorStockHi),
               refill \in LowDraw(ConnectorRestockLo, ConnectorRestockHi),
               price_pct \in PriceFactorDraws :
            LET adjusted_demand == ConnectorDemand(base, noise)
                start == IF day = 0 \/ prev_entry = None
                         THEN drawn ELSE prev_entry.stock_level
                due == ConnectorRestockDue(day, RESTOCKING_FREQUENCY)
                restock_qty == IF due THEN refill ELSE 0
                current_stock == start - adjusted_demand + restock_qty
            IN
            /\ inventory_records' =
                  Append(inventory_records,
                         Record(item, simulation_date, adjusted_demand,
                                ClampStock(current_stock), restock_qty, due,
                                price_pct))
            /\ item_idx' = item_idx + 1
            /\ stock_today' = start
            /\ stock_samples' = SamplesAfter(item.id, day, prev_entry)
            /\ RngGives(noise) /\ rng' = RngAfter(noise)
            /\ UNCHANGED <<pc, result>>
    /\ UNCHANGED <<impl, product_df, simulation_days, RESTOCKING_FREQUENCY,
                   DEMAND_VARIABILITY, now_day, day, base_demand,
                   previous_results, worker_draws>>
    /\ UNCHANGED <<enrichVars, leadVars, aggVars>>

(***************************************************************************)
(* Both copies: after the loops.                                           *)
(***************************************************************************)
LoopsDone ==
    IF impl = "ingestor"
    THEN IngestorInnerDone /\ item_idx >= Len(product_df)
    ELSE ConnectorInnerDone /\ day + 1 >= simulation_days

\* inventory_df = pd.DataFrame(inventory_records)
\* inventory_df = self._append_inventory_metrics(inventory_df)
\* return inventory_df           (except Exception: return None)
Finish ==
    /\ pc = "run"
    /\ LoopsDone
    /\ LET inventory_df == DataFrame(inventory_records) IN
       result' = IF RaisesKeyError(inventory_df) THEN None
                 ELSE AppendInventoryMetrics(inventory_df)
    /\ pc' = "done"
    /\ UNCHANGED <<impl, product_df, simulation_days, RESTOCKING_FREQUENCY,
                   DEMAND_VARIABILITY, now_day, item_idx, day, base_demand,
                   inventory_records, stock_today, rng, previous_results,
                   stock_samples, worker_draws>>
    /\ UNCHANGED <<enrichVars, leadVars, aggVars>>

(***************************************************************************)
(* The simulator's specification.                                          *)
(***************************************************************************)
\* The first n products, in id order.
FirstProducts(n) == [i \in 1..n |-> Product(i)]

\* Catalogs of at most MaxProducts rows with distinct ids, and one catalog
\* that lists the same product twice.
Catalogs ==
    {FirstProducts(n) : n \in 0..MaxProducts} \cup {<<Product(1), Product(1)>>}

Variabilities == {0, 100}
NowDays == {8}

IdleEnrich == df = DataFrame(<<>>) /\ enriched = None
IdleLead == /\ df_orders = DataFrame(<<>>)
            /\ LEAD_TIME_THRESHOLDS = [excellent |-> 1, good |-> 2]
            /\ lead_stats = None
IdleAgg == /\ df_inventory = DataFrame(<<>>)
           /\ df_returns = None
           /\ FILL_RATE_THRESHOLDS = [excellent |-> 95, good |-> 85, poor |-> 70]
           /\ days_delta = None
           /\ metrics = None

Init ==
    /\ impl \in {"ingestor", "connector"}
    /\ product_df \in Catalogs
    /\ simulation_days \in -1..MaxDays
    /\ RESTOCKING_FREQUENCY \in -1..MaxFreq
    /\ DEMAND_VARIABILITY \in Variabilities
    /\ now_day \in NowDays
    /\ pc = "run"
    /\ item_idx = 0
    /\ day = IF impl = "ingestor" THEN 0 ELSE -1
    /\ base_demand = 0
    /\ inventory_records = <<>>
    /\ stock_today = 0
    /\ result = None
    /\ rng = [tape |-> <<>>, pos |-> 0]
    /\ previous_results = <<>>
    /\ stock_samples = <<>>
    /\ worker_draws = <<>>
    /\ IdleEnrich
    /\ IdleLead
    /\ IdleAgg

Next ==
    \/ IngestorNextItem
    \/ IngestorDay
    \/ ConnectorNextDay
    \/ ConnectorItem
    \/ Finish

Spec == Init /\ [][Next]_vars

(***************************************************************************)
(* Properties of the simulator.                                            *)
(***************************************************************************)
Returned == pc = "done" /\ result # None

\* The records a run has produced: the appended dicts and, once the run has
\* returned a DataFrame, its rows.
ProducedRecords ==
    {inventory_records[i] : i \in DOMAIN inventory_records} \cup
    (IF Returned THEN {result.rows[i] : i \in DOMAIN result.rows} ELSE {})

ValidHorizon == simulation_days >= 1
ValidFrequency == RESTOCKING_FREQUENCY >= 1
ValidVariability == DEMAND_VARIABILITY \in 0..100

\* The day index of a record: its date counted from simulation_start.
DayOf(r) == r.date - SimulationStart

DistinctIds ==
    \A i, j \in DOMAIN product_df :
        product_df[i].id = product_df[j].id => i = j

\* C1: with simulation_days >= 1, a restocking frequency >= 1 and a demand
\* variability in [0,1], every record produced has stock_level >= 0 and
\* daily_demand >= 0.
C1_NonNegative ==
    (ValidHorizon /\ ValidFrequency /\ ValidVariability) =>
        \A r \in ProducedRecords : r.stock_level >= 0 /\ r.daily_demand >= 0

\* A returned run in which demand exceeded the stock on hand: the clamp acted
\* on a record whose demand is positive, and another record has zero demand.
C1_Witness ==
    /\ Returned /\ ValidHorizon /\ ValidFrequency /\ ValidVariability
    /\ \E i \in DOMAIN result.rows :
          result.rows[i].stock_level = 0 /\ result.rows[i].daily_demand > 0
    /\ \E i \in DOMAIN result.rows : result.rows[i].daily_demand = 0

\* C2: every record has restocked = TRUE exactly when restock_amount > 0,
\* restock_amount > 0 only on a day > 0 that the restocking frequency
\* divides, and every day-0 record has restocked = FALSE and
\* restock_amount = 0.
C2_RestockConsistency ==
    (ValidHorizon /\ ValidFrequency) =>
        \A r \in ProducedRecords :
            /\ r.restocked <=> r.restock_amount > 0
            /\ r.restock_amount > 0 =>
                  DayOf(r) > 0 /\ DayOf(r) % RESTOCKING_FREQUENCY = 0
            /\ DayOf(r) = 0 => ~ r.restocked /\ r.restock_amount = 0

\* Rows of the returned DataFrame for one product on one day.
RowsFor(id, d) ==
    {i \in DOMAIN result.rows :
        result.rows[i].product_id = id /\ DayOf(result.rows[i]) = d}

\* C3: a run over a catalog with distinct ids and simulation_days = N >= 1
\* returns exactly |products| x N records, exactly one for each
\* (product_id, day) pair with day in 0..N-1.
C3_OneRecordPerProductDay ==
    (pc = "done" /\ ValidHorizon /\ ValidFrequency /\ DistinctIds) =>
        /\ result # None
        /\ Len(result.rows) = Len(product_df) * simulation_days
        /\ \A p \in DOMAIN product_df, d \in 0..(simulation_days - 1) :
              Cardinality(RowsFor(product_df[p].id, d)) = 1

\* C4: a run over the empty catalog with simulation_days >= 1 returns an
\* empty record sequence, not the error outcome.
C4_EmptyCatalogEmptyResult ==
    (pc = "done" /\ product_df = <<>> /\ ValidHorizon) =>
        result # None /\ result.rows = <<>>

\* C5: a run with simulation_days <= 0 or with a restocking frequency <= 0
\* ends in the error outcome and returns no inventory records.
C5_InvalidConfigurationRejected ==
    (pc = "done" /\ (simulation_days <= 0 \/ RESTOCKING_FREQUENCY <= 0)) =>
        result = None

(***************************************************************************)
(* _append_inventory_metrics on its own, over any frame of records.        *)
(***************************************************************************)
\* A source record with the given demand and stock, dated by its position.
SourceRow(pos, demand, stock) ==
    Record(Product(1), pos, demand, stock, 0, FALSE, PriceFactorLoPct)

Quantities == 0..MaxQty

\* All frames of n rows, row i being SourceRow(i, d, s) for some d, s.
RECURSIVE RowSeqs(_)
RowSeqs(n) ==
    IF n = 0 THEN {<<>>}
    ELSE {Append(rs, SourceRow(n, d, s)) :
             rs \in RowSeqs(n - 1), d \in Quantities, s \in Quantities}

\* The frames of at most max rows, and the frame without columns.
Frames(max) ==
    {DataFrame(<<>>)} \cup
    {[columns |-> SourceFields, rows |-> rs] :
        rs \in UNION {RowSeqs(n) : n \in 0..max}}

Raised == [raised |-> "KeyError"]

IdleSim ==
    /\ impl = "ingestor"
    /\ product_df = <<>>
    /\ simulation_days = 1
    /\ RESTOCKING_FREQUENCY = 1
    /\ DEMAND_VARIABILITY = 0
    /\ now_day = 0
    /\ pc = "idle"
    /\ item_idx = 0
    /\ day = 0
    /\ base_demand = 0
    /\ inventory_records = <<>>
    /\ stock_today = 0
    /\ result = None
    /\ rng = [tape |-> <<>>, pos |-> 0]
    /\ previous_results = <<>>
    /\ stock_samples = <<>>
    /\ worker_draws = <<>>

InitEnrich ==
    /\ df \in Frames(MaxRows)
    /\ enriched = None
    /\ IdleSim
    /\ IdleLead
    /\ IdleAgg

\* df = self._append_inventory_metrics(df): the columns are assigned on the
\* frame handed in, which is also what is returned.
Enrich ==
    /\ enriched = None
    /\ IF RaisesKeyError(df)
       THEN enriched' = Raised /\ df' = df
       ELSE df' = AppendInventoryMetrics(df) /\ enriched' = df'
    /\ UNCHANGED <<simVars, leadVars, aggVars>>

NextEnrich == Enrich

SpecEnrich == InitEnrich /\ [][NextEnrich]_vars

EnrichReturned == enriched # None /\ enriched # Raised

\* C6: every enriched record has 0 <= fill_rate <= 1, and fill_rate equals
\* min(1, stock_level / daily_demand) when daily_demand > 0.
C6_FillRateBound ==
    EnrichReturned =>
        \A i \in DOMAIN enriched.rows :
            LET r == enriched.rows[i]
                fr == r.fill_rate
            IN /\ IsFinite(fr)
               /\ 0 <= fr[1] /\ fr[1] <= fr[2]
               /\ r.daily_demand > 0 =>
                     IF r.stock_level >= r.daily_demand
                     THEN fr[1] = fr[2]
                     ELSE fr[1] * r.daily_demand = r.stock_level * fr[2]

\* An enriched frame with a row whose stock exceeds its positive demand (the
\* cap applies) and a row whose stock falls short of it.
C6_Witness ==
    /\ EnrichReturned
    /\ \E i \in DOMAIN enriched.rows :
          /\ enriched.rows[i].daily_demand > 0
          /\ enriched.rows[i].stock_level > enriched.rows[i].daily_demand
    /\ \E i \in DOMAIN enriched.rows :
          /\ enriched.rows[i].stock_level > 0
          /\ enriched.rows[i].stock_level < enriched.rows[i].daily_demand

\* C7: every enriched record with daily_demand = 0 has days_of_inventory =
\* +infinity, fill_rate = 1 and stockout_risk = FALSE, whatever its stock.
C7_ZeroDemandSentinel ==
    EnrichReturned =>
        \A i \in DOMAIN enriched.rows :
            LET r == enriched.rows[i] IN
            r.daily_demand = 0 =>
                /\ r.days_of_inventory[2] = 0 /\ r.days_of_inventory[1] > 0
                /\ IsFinite(r.fill_rate) /\ r.fill_rate[1] = r.fill_rate[2]
                /\ r.stockout_risk = FALSE

\* An enriched frame holding a zero-demand row with zero stock and a
\* zero-demand row with stock.
C7_Witness ==
    /\ EnrichReturned
    /\ \E i \in DOMAIN enriched.rows :
          enriched.rows[i].daily_demand = 0 /\ enriched.rows[i].stock_level = 0
    /\ \E i \in DOMAIN enriched.rows :
          enriched.rows[i].daily_demand = 0 /\ enriched.rows[i].stock_level > 0

\* C8: every enriched record with stock_level = 0 and daily_demand > 0 has
\* annualized_turnover = 0, fill_rate = 0 and stockout_risk = TRUE, and its
\* turnover is a finite number (no division by the zero stock).
C8_ZeroStockSentinel ==
    EnrichReturned =>
        \A i \in DOMAIN enriched.rows :
            LET r == enriched.rows[i] IN
            (r.stock_level = 0 /\ r.daily_demand > 0) =>
                /\ IsFinite(r.annualized_turnover)
                /\ r.annualized_turnover[1] = 0
                /\ IsFinite(r.fill_rate) /\ r.fill_rate[1] = 0
                /\ r.stockout_risk = TRUE

\* An enriched frame holding a row with no stock and positive demand.
C8_Witness ==
    /\ EnrichReturned
    /\ \E i \in DOMAIN enriched.rows :
          enriched.rows[i].stock_level = 0 /\ enriched.rows[i].daily_demand > 0

\* The derived fields of a row.
Derived(r) == [f \in DerivedFields |-> r[f]]

\* C9: a call of the enrichment that returns gives back as many records as
\* it was given, in the same order, each with its source fields unchanged
\* and with exactly the four derived fields added, and two records with the
\* same daily_demand and stock_level get the same derived fields.
C9_EnrichmentFrame ==
    [][(enriched = None /\ enriched' # None /\ enriched' # Raised) =>
          /\ Len(enriched'.rows) = Len(df.rows)
          /\ \A i \in DOMAIN df.rows :
                /\ DOMAIN enriched'.rows[i] = SourceFields \cup DerivedFields
                /\ \A f \in SourceFields : enriched'.rows[i][f] = df.rows[i][f]
          /\ \A i, j \in DOMAIN enriched'.rows :
                (/\ enriched'.rows[i].daily_demand = enriched'.rows[j].daily_demand
                 /\ enriched'.rows[i].stock_level = enriched'.rows[j].stock_level)
                => Derived(enriched'.rows[i]) = Derived(enriched'.rows[j])]_vars

\* An enriched frame of at least two rows, one of them without demand, and
\* two of them with the same demand and stock.
C9_Witness ==
    /\ EnrichReturned
    /\ Len(enriched.rows) >= 2
    /\ \E i \in DOMAIN enriched.rows : enriched.rows[i].daily_demand = 0
    /\ \E i, j \in DOMAIN enriched.rows :
          /\ i # j
          /\ enriched.rows[i].daily_demand = enriched.rows[j].daily_demand
          /\ enriched.rows[i].stock_level = enriched.rows[j].stock_level

(***************************************************************************)
(* Orders: src/data_extraction/excel_connector.py and                      *)
(* src/data_processing/supply_chain_metrics.py.  A cell is <<v>> when it   *)
(* holds v and <<>> when it is null (NaT / NaN); dates are day numbers.    *)
(***************************************************************************)
Null == <<>>
Cell(v) == <<v>>

RECURSIVE SeqSum(_)
SeqSum(q) == IF q = <<>> THEN 0 ELSE Head(q) + SeqSum(Tail(q))

\* _process_orders_data: df['Lead Time (Days)'] = (Ship Date - Order Date).dt.days
\* when both date columns are there (the calendar columns are not carried).
ProcessOrdersData(frame) ==
    IF {"Order Date", "Ship Date"} \subseteq frame.columns
    THEN [columns |-> frame.columns \cup {"Lead Time (Days)"},
          rows |-> [i \in DOMAIN frame.rows |->
                      LET r == frame.rows[i] IN
                      [c \in DOMAIN r \cup {"Lead Time (Days)"} |->
                          IF c = "Lead Time (Days)"
                          THEN IF r["Ship Date"] = Null \/ r["Order Date"] = Null
                               THEN Null
                               ELSE Cell(r["Ship Date"][1] - r["Order Date"][1])
                          ELSE r[c]]]]
    ELSE frame

\* pd.cut(x, bins=[0, excellent, good, inf], labels=[...]): the bins are
\* (0, excellent], (excellent, good], (good, inf]; a null and a value outside
\* every bin get no label.
LeadTimeGrade(cell, thresholds) ==
    IF cell = Null THEN "NaN"
    ELSE LET x == cell[1] IN
         CASE x <= 0 -> "NaN"
           [] x > 0 /\ x <= thresholds.excellent -> "Excellent"
           [] x > thresholds.excellent /\ x <= thresholds.good -> "Good"
           [] OTHER -> "Poor"

\* The non-null cells of a column, in row order.
NonNull(frame, col) ==
    LET cells == [i \in DOMAIN frame.rows |-> frame.rows[i][col]]
        kept == SelectSeq(cells, LAMBDA c : c # Null)
    IN [i \in DOMAIN kept |-> kept[i][1]]

\* The k-th smallest of the values of a sequence.
KthSmallest(q, k) ==
    CHOOSE v \in {q[i] : i \in DOMAIN q} :
        /\ Cardinality({i \in DOMAIN q : q[i] < v}) < k
        /\ Cardinality({i \in DOMAIN q : q[i] <= v}) >= k

\* Series.mean(), .median(), .std() (as the variance, ddof = 1), .min(), .max()
\* over the non-null values; NaN when there are too few of them.
SeriesMean(q) == Frac(SeqSum(q), Len(q))
SeriesMedian(q) ==
    LET n == Len(q) IN
    IF n = 0 THEN NaN
    ELSE IF n % 2 = 1 THEN Frac(KthSmallest(q, (n + 1) \div 2), 1)
    ELSE Frac(KthSmallest(q, n \div 2) + KthSmallest(q, n \div 2 + 1), 2)
SeriesVariance(q) ==
    LET n == Len(q)
        squares == [i \in DOMAIN q |-> q[i] * q[i]]
    IN Frac(n * SeqSum(squares) - SeqSum(q) * SeqSum(q), n * (n - 1))
SeriesMin(q) == IF q = <<>> THEN NaN ELSE Frac(KthSmallest(q, 1), 1)
SeriesMax(q) == IF q = <<>> THEN NaN ELSE Frac(KthSmallest(q, Len(q)), 1)

\* df_orders['lead_time_grade'] = pd.cut(...): the column is added to the
\* frame that was handed in.
WithLeadTimeGrade(frame, thresholds) ==
    [columns |-> frame.columns \cup {"lead_time_grade"},
     rows |-> [i \in DOMAIN frame.rows |->
                 LET r == frame.rows[i] IN
                 [c \in DOMAIN r \cup {"lead_time_grade"} |->
                     IF c = "lead_time_grade"
                     THEN LeadTimeGrade(r["Lead Time (Days)"], thresholds)
                     ELSE r[c]]]]

\* value_counts(normalize=True).get(label, 0): the share of the label among
\* the graded rows (NaN when no row is graded).
GradeRatio(frame, label) ==
    LET graded == {i \in DOMAIN frame.rows :
                      frame.rows[i]["lead_time_grade"] # "NaN"}
        hits == {i \in graded : frame.rows[i]["lead_time_grade"] = label}
    IN Frac(Cardinality(hits), Cardinality(graded))

LeadTimeStats(frame, graded) ==
    LET q == NonNull(frame, "Lead Time (Days)") IN
    [avg_lead_time |-> SeriesMean(q),
     med_lead_time |-> SeriesMedian(q),
     std_lead_time |-> SeriesVariance(q),
     min_lead_time |-> SeriesMin(q),
     max_lead_time |-> SeriesMax(q),
     order_count |-> Len(frame.rows),
     excellent_ratio |-> GradeRatio(graded, "Excellent"),
     good_ratio |-> GradeRatio(graded, "Good"),
     poor_ratio |-> GradeRatio(graded, "Poor")]

\* The order sheets: n rows with an order date each and, when the sheet has
\* the column, a ship date that is null or 0..MaxLead days later.
RECURSIVE OrderRows(_, _)
OrderRows(n, with_ship) ==
    IF n = 0 THEN {<<>>}
    ELSE {Append(rs, r) :
            rs \in OrderRows(n - 1, with_ship),
            r \in IF with_ship
                  THEN {[c \in {"Order Date", "Ship Date"} |->
                            IF c = "Order Date" THEN Cell(n) ELSE ship] :
                          ship \in {Null} \cup {Cell(n + k) : k \in 0..MaxLead}}
                  ELSE {[c \in {"Order Date"} |-> Cell(n)]}}

OrderSheets(max) ==
    {[columns |-> {"Order Date", "Ship Date"}, rows |-> rs] :
        rs \in UNION {OrderRows(n, TRUE) : n \in 0..max}}
    \cup
    {[columns |-> {"Order Date"}, rows |-> rs] :
        rs \in UNION {OrderRows(n, FALSE) : n \in 0..max}}

\* LEAD_TIME_THRESHOLDS with 0 < excellent < good, below the longest lead time.
ThresholdChoices ==
    {t \in [excellent : 1..(MaxLead - 1), good : 1..(MaxLead - 1)] :
        t.excellent < t.good}

InitLeadTime ==
    /\ \E sheet \in OrderSheets(MaxOrders) : df_orders = ProcessOrdersData(sheet)
    /\ LEAD_TIME_THRESHOLDS \in ThresholdChoices
    /\ lead_stats = None
    /\ IdleSim
    /\ IdleEnrich
    /\ IdleAgg

\* compute_lead_time_stats(df_orders)
ComputeLeadTimeStats ==
    /\ lead_stats = None
    /\ IF "Lead Time (Days)" \notin df_orders.columns
       THEN /\ lead_stats' = [returned |-> "None"]
            /\ df_orders' = df_orders
       ELSE /\ df_orders' = WithLeadTimeGrade(df_orders, LEAD_TIME_THRESHOLDS)
            /\ lead_stats' = LeadTimeStats(df_orders, df_orders')
    /\ UNCHANGED <<LEAD_TIME_THRESHOLDS, simVars, enrichVars, aggVars>>

NextLeadTime == ComputeLeadTimeStats

SpecLeadTime == InitLeadTime /\ [][NextLeadTime]_vars

StatsComputed == lead_stats # None /\ lead_stats # [returned |-> "None"]

\* The rows of the orders frame whose lead time is not null.
WithLeadTime ==
    {i \in DOMAIN df_orders.rows : df_orders.rows[i]["Lead Time (Days)"] # Null}

\* C10: once compute_lead_time_stats has computed its statistics over
\* orders of which at least one has a lead time, every order with a non-null
\* lead time (0 included) is in one of the buckets Excellent, Good, Poor, and
\* excellent_ratio + good_ratio + poor_ratio = 1.
C10_GradingPartition ==
    (StatsComputed /\ WithLeadTime # {}) =>
        /\ \A i \in WithLeadTime :
              df_orders.rows[i]["lead_time_grade"] \in
                  {"Excellent", "Good", "Poor"}
        /\ IsFinite(lead_stats.excellent_ratio)
        /\ IsFinite(lead_stats.good_ratio)
        /\ IsFinite(lead_stats.poor_ratio)
        /\ lead_stats.excellent_ratio[1] + lead_stats.good_ratio[1]
              + lead_stats.poor_ratio[1] = lead_stats.excellent_ratio[2]

(***************************************************************************)
(* LogisticsAnalytics: what the calls have in common.                      *)
(***************************************************************************)
\* The value a compute_* method hands back from its except clause (or from
\* an early `return None`), told apart from "not called yet".
ReturnedNone == [returned |-> "None"]

\* A category of the product catalog, and one that only orders and returns
\* carry.
OrderCategories == {Product(1).category, "Books"}

\* Series.value_counts(normalize=True): the share of each value that occurs
\* among the rows.
ValueCountsNormalized(frame, col) ==
    LET vals == {frame.rows[i][col] : i \in DOMAIN frame.rows} IN
    [v \in vals |->
        Frac(Cardinality({i \in DOMAIN frame.rows : frame.rows[i][col] = v}),
             Len(frame.rows))]

(***************************************************************************)
(* compute_return_metrics(df_orders, df_returns)                           *)
(***************************************************************************)
\* DataFrame.empty: no rows, or no columns
IsEmpty(frame) == frame.rows = <<>> \/ frame.columns = {}

\* The quotient taken whatever the number of orders.
ReturnRatioUnguarded(order_total, return_total) ==
    Frac(return_total, order_total)

\* rate = return_total / order_total if order_total > 0 else 0
ReturnRatio(order_total, return_total) ==
    IF order_total > 0 THEN Frac(return_total, order_total) ELSE Frac(0, 1)

ReturnMetrics(orders, returns) ==
    IF returns # None /\ ~ IsEmpty(returns)
    THEN LET order_total == Len(orders.rows)
             return_total == Len(returns.rows)
             rate == ReturnRatio(order_total, return_total)
         IN [order_total |-> order_total,
             return_total |-> return_total,
             return_ratio |-> rate,
             return_percent |-> Frac(rate[1] * 100, rate[2]),
             category_breakdown |->
                IF "category" \in returns.columns
                THEN ValueCountsNormalized(returns, "category") ELSE None]
    ELSE [order_total |-> Len(orders.rows),
          return_total |-> 0,
          return_ratio |-> Frac(0, 1),
          return_percent |-> Frac(0, 1)]

\* The returns sheets: n rows with a return date each and, when the sheet
\* has the column, a category.
RECURSIVE ReturnRows(_, _)
ReturnRows(n, with_category) ==
    IF n = 0 THEN {<<>>}
    ELSE {Append(rs, r) :
            rs \in ReturnRows(n - 1, with_category),
            r \in IF with_category
                  THEN {[c \in {"Return Date", "category"} |->
                            IF c = "Return Date" THEN Cell(n) ELSE cat] :
                          cat \in OrderCategories}
                  ELSE {[c \in {"Return Date"} |-> Cell(n)]}}

\* No returns at all, the frame without columns, and the sheets of at most
\* max rows.
ReturnSheets(max) ==
    {None, DataFrame(<<>>)} \cup
    {[columns |-> {"Return Date", "category"}, rows |-> rs] :
        rs \in UNION {ReturnRows(n, TRUE) : n \in 0..max}}
    \cup
    {[columns |-> {"Return Date"}, rows |-> rs] :
        rs \in UNION {ReturnRows(n, FALSE) : n \in 0..max}}

InitReturns ==
    /\ \E sheet \in OrderSheets(MaxOrders) : df_orders = ProcessOrdersData(sheet)
    /\ LEAD_TIME_THRESHOLDS = [excellent |-> 1, good |-> 2]
    /\ lead_stats = None
    /\ df_inventory = DataFrame(<<>>)
    /\ df_returns \in ReturnSheets(MaxRows)
    /\ FILL_RATE_THRESHOLDS = [excellent |-> 95, good |-> 85, poor |-> 70]
    /\ days_delta = None
    /\ metrics = None
    /\ IdleSim
    /\ IdleEnrich

\* compute_return_metrics(df_orders, df_returns)
ComputeReturnMetrics ==
    /\ metrics = None
    /\ metrics' = ReturnMetrics(df_orders, df_returns)
    /\ UNCHANGED <<df_inventory, df_returns, FILL_RATE_THRESHOLDS, days_delta>>
    /\ UNCHANGED <<simVars, enrichVars, leadVars>>

SpecReturns == InitReturns /\ [][ComputeReturnMetrics]_vars

ReturnCount == IF df_returns = None THEN 0 ELSE Len(df_returns.rows)

\* C11: compute_return_metrics returns a result, never None, whose
\* return_ratio is |returns| / |orders| when there is at least one order and
\* 0 when there is no order or when the returns are missing or empty.
C11_ReturnRatio ==
    metrics # None =>
        /\ metrics # ReturnedNone
        /\ IsFinite(metrics.return_ratio)
        /\ IF Len(df_orders.rows) >= 1
           THEN metrics.return_ratio[1] * Len(df_orders.rows)
                   = ReturnCount * metrics.return_ratio[2]
           ELSE metrics.return_ratio[1] = 0

\* The call has returned for returns that came in although there is no order.
C11_Witness ==
    /\ metrics # None /\ metrics # ReturnedNone
    /\ Len(df_orders.rows) = 0
    /\ ReturnCount >= 1

(***************************************************************************)
(* Arithmetic on the exact fractions, as floats behave: a sum with +inf is *)
(* +inf, anything with NaN is NaN.                                         *)
(***************************************************************************)
FracAdd(p, q) ==
    IF IsFinite(p) /\ IsFinite(q)
    THEN Frac(p[1] * q[2] + q[1] * p[2], p[2] * q[2])
    ELSE IF p = NaN \/ q = NaN THEN NaN ELSE Inf

RECURSIVE FracSum(_)
FracSum(q) == IF q = <<>> THEN Frac(0, 1) ELSE FracAdd(Head(q), FracSum(Tail(q)))

\* Series.mean() of a float column
FracMean(q) ==
    IF q = <<>> THEN NaN
    ELSE LET total == FracSum(q) IN
         IF IsFinite(total) THEN Frac(total[1], total[2] * Len(q)) ELSE total

\* The k-th smallest of a sequence of fractions without NaN.
FracKthSmallest(q, k) ==
    CHOOSE v \in {q[i] : i \in DOMAIN q} :
        /\ Cardinality({i \in DOMAIN q : FracLess(q[i], v)}) < k
        /\ Cardinality({i \in DOMAIN q : ~ FracLess(v, q[i])}) >= k

\* Series.median() of a float column
FracMedian(q) ==
    LET n == Len(q) IN
    IF n = 0 THEN NaN
    ELSE IF n % 2 = 1 THEN FracKthSmallest(q, (n + 1) \div 2)
    ELSE LET total == FracAdd(FracKthSmallest(q, n \div 2),
                              FracKthSmallest(q, n \div 2 + 1))
         IN IF IsFinite(total) THEN Frac(total[1], total[2] * 2) ELSE total

\* The values of a column, in row order.
Column(rows, col) == [i \in DOMAIN rows |-> rows[i][col]]

\* The rows of a group of groupby(col).
GroupRows(rows, col, key) == SelectSeq(rows, LAMBDA r : r[col] = key)

\* The keys of groupby(col): the values of the column that occur.
GroupKeys(rows, col) == {rows[i][col] : i \in DOMAIN rows}

\* Number of rows of a boolean column that are True (.sum() of the column).
CountTrue(q) == Cardinality({i \in DOMAIN q : q[i]})

(***************************************************************************)
(* compute_category_metrics(df_orders, df_inventory)                       *)
(***************************************************************************)
\* groupby and merge put the keys in sorted order.
CategoryOrder == <<"Books", "jewelery", "men's clothing">>

LeadTimeColumns == {"category", "mean", "median", "std", "count"}
InventoryColumns == {"category", "fill_rate", "annualized_turnover",
                     "days_of_inventory", "stockout_risk"}

\* df_orders.groupby('category')['Lead Time (Days)']
\*     .agg(['mean', 'median', 'std', 'count']).reset_index()
LeadTimeGroups(orders) ==
    LET keys == SelectSeq(CategoryOrder,
                          LAMBDA c : c \in GroupKeys(orders.rows, "category"))
    IN [k \in DOMAIN keys |->
          LET group == [columns |-> orders.columns,
                        rows |-> GroupRows(orders.rows, "category", keys[k])]
              q == NonNull(group, "Lead Time (Days)")
          IN [c \in LeadTimeColumns |->
                CASE c = "category" -> keys[k]
                  [] c = "mean" -> Cell(SeriesMean(q))
                  [] c = "median" -> Cell(SeriesMedian(q))
                  [] c = "std" -> Cell(SeriesVariance(q))
                  [] OTHER -> Cell(Len(q))]]

\* df_inventory.groupby('category').agg({...}).reset_index()
InventoryGroups(inventory) ==
    LET keys == SelectSeq(CategoryOrder,
                          LAMBDA c : c \in GroupKeys(inventory.rows, "category"))
    IN [k \in DOMAIN keys |->
          LET rows == GroupRows(inventory.rows, "category", keys[k]) IN
          [c \in InventoryColumns |->
                CASE c = "category" -> keys[k]
                  [] c = "stockout_risk" -> Cell(CountTrue(Column(rows, c)))
                  [] OTHER -> Cell(FracMean(Column(rows, c)))]]

\* A row of the merge: the cells of both sides, null where a side has none.
MergedRow(key, left, right) ==
    [c \in LeadTimeColumns \cup InventoryColumns |->
        IF c = "category" THEN key
        ELSE IF c \in LeadTimeColumns
             THEN IF left = None THEN Null ELSE left[c]
             ELSE IF right = None THEN Null ELSE right[c]]

\* The rows pd.merge gives for one key: every pairing of the left and right
\* rows with the key, or the rows of the one side that has it.
MergedRowsFor(key, left, right) ==
    LET l == SelectSeq(left, LAMBDA r : r["category"] = key)
        r == SelectSeq(right, LAMBDA x : x["category"] = key)
    IN IF l = <<>>
       THEN [i \in DOMAIN r |-> MergedRow(key, None, r[i])]
       ELSE IF r = <<>>
       THEN [i \in DOMAIN l |-> MergedRow(key, l[i], None)]
       ELSE [n \in 1..(Len(l) * Len(r)) |->
                MergedRow(key, l[((n - 1) \div Len(r)) + 1],
                               r[((n - 1) % Len(r)) + 1])]

\* how='inner': the keys both sides have.
MergeKeysInner(left, right) ==
    GroupKeys(left, "category") \cap GroupKeys(right, "category")

\* how='outer': the keys either side has.
MergeKeys(left, right) ==
    GroupKeys(left, "category") \cup GroupKeys(right, "category")

RECURSIVE MergeFrom(_, _, _, _)
MergeFrom(k, keys, left, right) ==
    IF k > Len(CategoryOrder) THEN <<>>
    ELSE (IF CategoryOrder[k] \in keys
          THEN MergedRowsFor(CategoryOrder[k], left, right) ELSE <<>>)
         \o MergeFrom(k + 1, keys, left, right)

\* pd.merge(lead_time_grp, inventory_grp, on='category', how='outer')
Merge(left, right) ==
    [columns |-> LeadTimeColumns \cup InventoryColumns,
     rows |-> MergeFrom(1, MergeKeys(left, right), left, right)]

CategoryInputsValid(orders, inventory) ==
    /\ "category" \in orders.columns
    /\ "category" \in inventory.columns
    /\ "Lead Time (Days)" \in orders.columns
    /\ InventoryColumns \subseteq inventory.columns

CategoryMetrics(orders, inventory) ==
    IF "category" \in orders.columns /\ "category" \in inventory.columns
    THEN IF CategoryInputsValid(orders, inventory)
         THEN Merge(LeadTimeGroups(orders), InventoryGroups(inventory))
         ELSE ReturnedNone    \* KeyError, caught by the except clause
    ELSE ReturnedNone

\* The demand and stock of the inventory rows handed to the analytics: no
\* demand, demand above the stock, stock of three days of demand.
DemandStockSamples == {<<0, 1>>, <<2, 1>>, <<1, 3>>}

\* Enriched inventory frames of at most max rows over the catalog, and the
\* frame without columns.
RECURSIVE InventoryRows(_)
InventoryRows(n) ==
    IF n = 0 THEN {<<>>}
    ELSE {Append(rs, Record(Product(i), n, ds[1], ds[2], 0, FALSE,
                            PriceFactorLoPct)) :
            rs \in InventoryRows(n - 1), i \in 1..2, ds \in DemandStockSamples}

InventoryFrames(max) ==
    {DataFrame(<<>>)} \cup
    {AppendInventoryMetrics([columns |-> SourceFields, rows |-> rs]) :
        rs \in UNION {InventoryRows(n) : n \in 0..max}}

\* Orders with a category each and a lead time that is null, 1 or MaxLead.
RECURSIVE CategoryOrderRows(_)
CategoryOrderRows(n) ==
    IF n = 0 THEN {<<>>}
    ELSE {Append(rs, [c \in {"Order Date", "Lead Time (Days)", "category"} |->
                        CASE c = "Order Date" -> Cell(n)
                          [] c = "category" -> cat
                          [] OTHER -> lead]) :
            rs \in CategoryOrderRows(n - 1), cat \in OrderCategories,
            lead \in {Null, Cell(1), Cell(MaxLead)}}

\* Those orders, and the sheets that lack the category or lead-time column.
CategoryOrderSheets(max) ==
    {[columns |-> {"Order Date", "Lead Time (Days)", "category"}, rows |-> rs] :
        rs \in UNION {CategoryOrderRows(n) : n \in 0..max}}
    \cup {ProcessOrdersData(sheet) : sheet \in OrderSheets(1)}

InitCategory ==
    /\ df_orders \in CategoryOrderSheets(MaxRows)
    /\ LEAD_TIME_THRESHOLDS = [excellent |-> 1, good |-> 2]
    /\ lead_stats = None
    /\ df_inventory \in InventoryFrames(MaxRows)
    /\ df_returns = None
    /\ FILL_RATE_THRESHOLDS = [excellent |-> 95, good |-> 85, poor |-> 70]
    /\ days_delta = None
    /\ metrics = None
    /\ IdleSim
    /\ IdleEnrich

\* compute_category_metrics(df_orders, df_inventory)
ComputeCategoryMetrics ==
    /\ metrics = None
    /\ metrics' = CategoryMetrics(df_orders, df_inventory)
    /\ UNCHANGED <<df_inventory, df_returns, FILL_RATE_THRESHOLDS, days_delta>>
    /\ UNCHANGED <<simVars, enrichVars, leadVars>>

SpecCategory == InitCategory /\ [][ComputeCategoryMetrics]_vars

\* The rows of the returned table for a category.
CategoryRows(cat) ==
    {i \in DOMAIN metrics.rows : metrics.rows[i]["category"] = cat}

\* C12: for orders and inventory that carry the columns it reads,
\* compute_category_metrics returns a table with exactly one row for every
\* category of the orders or of the inventory and no other row; the row of a
\* category only the orders have has null inventory metrics, the row of a
\* category only the inventory has has null lead-time metrics, and a side
\* that has the category keeps its count.
C12_CategoryOuterJoin ==
    (metrics # None /\ CategoryInputsValid(df_orders, df_inventory)) =>
        LET in_orders == GroupKeys(df_orders.rows, "category")
            in_inventory == GroupKeys(df_inventory.rows, "category")
        IN /\ metrics # ReturnedNone
           /\ \A cat \in in_orders \cup in_inventory :
                 Cardinality(CategoryRows(cat)) = 1
           /\ \A i \in DOMAIN metrics.rows :
                 LET row == metrics.rows[i] IN
                 /\ row["category"] \in in_orders \cup in_inventory
                 /\ row["category"] \notin in_orders =>
                       \A c \in LeadTimeColumns \ {"category"} : row[c] = Null
                 /\ row["category"] \notin in_inventory =>
                       \A c \in InventoryColumns \ {"category"} : row[c] = Null
                 /\ row["category"] \in in_orders => row["count"] # Null
                 /\ row["category"] \in in_inventory =>
                       row["stockout_risk"] # Null

\* A returned table over a category only the orders have, one only the
\* inventory has and one both have.
C12_Witness ==
    /\ metrics # None /\ metrics # ReturnedNone
    /\ CategoryInputsValid(df_orders, df_inventory)
    /\ LET in_orders == GroupKeys(df_orders.rows, "category")
           in_inventory == GroupKeys(df_inventory.rows, "category")
       IN /\ in_orders \ in_inventory # {}
          /\ in_inventory \ in_orders # {}
          /\ in_orders \cap in_inventory # {}

(***************************************************************************)
(* The analytics calls as functions of their arguments: `value` is what    *)
(* the method returns, `orders` is the orders frame as the call leaves it. *)
(***************************************************************************)
\* pd.cut raises ValueError unless the bins 0, excellent, good, inf increase.
BinsIncrease(thresholds) ==
    0 < thresholds.excellent /\ thresholds.excellent < thresholds.good

\* compute_lead_time_stats(df_orders)
LeadTimeStatsCall(orders, thresholds) ==
    IF "Lead Time (Days)" \notin orders.columns \/ ~ BinsIncrease(thresholds)
    THEN [value |-> ReturnedNone, orders |-> orders]
    ELSE LET graded == WithLeadTimeGrade(orders, thresholds) IN
         [value |-> LeadTimeStats(orders, graded), orders |-> graded]

\* np.random.randint(2, 6, size=len(df_orders)): the high end is excluded
CycleDeltaLow == 2
CycleDeltaHigh == 6
DeltaDrawsInclusive == Draws(CycleDeltaLow, CycleDeltaHigh)
DeltaDraws == Draws(CycleDeltaLow, CycleDeltaHigh - 1)
DeltaArrays(n) == [1..n -> DeltaDraws]

\* A date plus a number of days, a date minus a date: null when one is null.
CellPlus(cell, days) == IF cell = Null THEN Null ELSE Cell(cell[1] + days)
CellMinus(a, b) == IF a = Null \/ b = Null THEN Null ELSE Cell(a[1] - b[1])

\* df_orders['Delivery Date'] = df_orders['Ship Date'] + pd.to_timedelta(...)
WithDeliveryDate(orders, deltas) ==
    [columns |-> orders.columns \cup {"Delivery Date"},
     rows |-> [i \in DOMAIN orders.rows |->
                 LET r == orders.rows[i] IN
                 [c \in DOMAIN r \cup {"Delivery Date"} |->
                     IF c = "Delivery Date"
                     THEN CellPlus(r["Ship Date"], deltas[i])
                     ELSE r[c]]]]

\* df_orders['Cycle Time (Days)'] = (Delivery Date - Order Date).dt.days
WithCycleTime(orders) ==
    [columns |-> orders.columns \cup {"Cycle Time (Days)"},
     rows |-> [i \in DOMAIN orders.rows |->
                 LET r == orders.rows[i] IN
                 [c \in DOMAIN r \cup {"Cycle Time (Days)"} |->
                     IF c = "Cycle Time (Days)"
                     THEN CellMinus(r["Delivery Date"], r["Order Date"])
                     ELSE r[c]]]]

CycleTimeStats(orders) ==
    LET q == NonNull(orders, "Cycle Time (Days)") IN
    [avg_cycle_time |-> SeriesMean(q),
     med_cycle_time |-> SeriesMedian(q),
     std_cycle_time |-> SeriesVariance(q),
     min_cycle_time |-> SeriesMin(q),
     max_cycle_time |-> SeriesMax(q)]

\* 'Ship Date' in df_orders.columns
HasShipDate(orders) == "Ship Date" \in orders.columns

\* The else branch giving up instead of falling back.
CycleTimeNoFallback(orders, thresholds) ==
    [value |-> ReturnedNone, orders |-> orders]

\* return self.compute_lead_time_stats(df_orders)
CycleTimeFallback(orders, thresholds) == LeadTimeStatsCall(orders, thresholds)

\* compute_cycle_time(df_orders); `drawn` is the array it drew, None when it
\* drew none.
CycleTimeCall(orders, thresholds, deltas) ==
    IF HasShipDate(orders)
    THEN LET dated == WithDeliveryDate(orders, deltas) IN
         IF "Order Date" \notin orders.columns
         THEN \* KeyError at the subtraction, after the first assignment
              [value |-> ReturnedNone, orders |-> dated, drawn |-> deltas]
         ELSE LET timed == WithCycleTime(dated) IN
              [value |-> CycleTimeStats(timed), orders |-> timed,
               drawn |-> deltas]
    ELSE LET fallback == CycleTimeFallback(orders, thresholds) IN
         [value |-> fallback.value, orders |-> fallback.orders, drawn |-> None]

\* The product ids of a frame, in increasing order (groupby sorts its keys).
RECURSIVE SortedIds(_)
SortedIds(ids) ==
    IF ids = {} THEN <<>>
    ELSE LET least == SetMin(ids) IN <<least>> \o SortedIds(ids \ {least})

TurnoverColumns == {"product_id", "daily_demand", "stock_level",
                    "annualized_turnover"}

\* compute_inventory_turnover(df_inventory)
InventoryTurnover(inventory) ==
    IF ~ (TurnoverColumns \subseteq inventory.columns)
    THEN ReturnedNone    \* KeyError, caught by the except clause
    ELSE LET ids == SortedIds(GroupKeys(inventory.rows, "product_id"))
             grouped ==
                [k \in DOMAIN ids |->
                    LET rows == GroupRows(inventory.rows, "product_id", ids[k])
                        demand == SeqSum(Column(rows, "daily_demand"))
                        stock == SeqSum(Column(rows, "stock_level"))
                    IN [annualized_turnover |->
                           FracMean(Column(rows, "annualized_turnover")),
                        days_on_hand |->
                           IF demand > 0 THEN Frac(stock, demand) ELSE Inf]]
         IN [avg_turnover |-> FracMean(Column(grouped, "annualized_turnover")),
             med_turnover |-> FracMedian(Column(grouped, "annualized_turnover")),
             avg_days_on_hand |-> FracMean(Column(grouped, "days_on_hand")),
             med_days_on_hand |-> FracMedian(Column(grouped, "days_on_hand")),
             product_count |-> Len(grouped)]

FillRateColumns == {"product_id", "fill_rate", "stockout_risk"}

\* (column >= bound).mean() and (column < bound).mean(), bound in percent
ShareAtLeast(q, pct) ==
    Frac(Cardinality({i \in DOMAIN q : FracLeq(Frac(pct, 100), q[i])}), Len(q))
ShareBelow(q, pct) ==
    Frac(Cardinality({i \in DOMAIN q : FracLess(q[i], Frac(pct, 100))}), Len(q))

\* compute_fill_rate_stats(df_inventory)
FillRateStats(inventory, thresholds) ==
    IF ~ (FillRateColumns \subseteq inventory.columns)
    THEN ReturnedNone    \* KeyError, caught by the except clause
    ELSE LET ids == SortedIds(GroupKeys(inventory.rows, "product_id"))
             grouped ==
                [k \in DOMAIN ids |->
                    LET rows == GroupRows(inventory.rows, "product_id", ids[k])
                    IN [fill_rate |-> FracMean(Column(rows, "fill_rate")),
                        stockout_risk |->
                           CountTrue(Column(rows, "stockout_risk"))]]
             rates == Column(grouped, "fill_rate")
         IN [avg_fill_rate |-> FracMean(rates),
             med_fill_rate |-> FracMedian(rates),
             excellent_rate_ratio |-> ShareAtLeast(rates, thresholds.excellent),
             good_rate_ratio |-> ShareAtLeast(rates, thresholds.good),
             poor_rate_ratio |-> ShareBelow(rates, thresholds.poor),
             product_total |-> Len(grouped),
             at_risk_count |-> SeqSum(Column(grouped, "stockout_risk"))]

(***************************************************************************)
(* compute_all_metrics(df_orders, df_inventory, df_returns)                *)
(***************************************************************************)
MetricKeys == {"lead_time", "cycle_time", "inventory_turnover", "fill_rate",
               "category", "returns"}

\* The dict given up as a whole when one of the calls returned None.
BundleAllOrNothing(lt, ct, it, fr, cat, ret) ==
    IF \/ lt = ReturnedNone \/ ct = ReturnedNone \/ it = ReturnedNone
       \/ fr = ReturnedNone \/ cat = ReturnedNone \/ ret = ReturnedNone
    THEN ReturnedNone
    ELSE [lead_time |-> lt, cycle_time |-> ct, inventory_turnover |-> it,
          fill_rate |-> fr, category |-> cat, returns |-> ret]

\* metrics = {'lead_time': ..., ..., 'returns': ...}
Bundle(lt, ct, it, fr, cat, ret) ==
    [lead_time |-> lt, cycle_time |-> ct, inventory_turnover |-> it,
     fill_rate |-> fr, category |-> cat, returns |-> ret]

\* The six calls in the order the dict literal makes them; the orders frame
\* goes from one call to the next as the call before left it.
AllMetricsCall(orders, inventory, returns, lead_bins, fill_bins, deltas) ==
    LET lt == LeadTimeStatsCall(orders, lead_bins)
        ct == CycleTimeCall(lt.orders, lead_bins, deltas)
    IN [value |-> Bundle(lt.value, ct.value,
                         InventoryTurnover(inventory),
                         FillRateStats(inventory, fill_bins),
                         CategoryMetrics(ct.orders, inventory),
                         ReturnMetrics(ct.orders, returns)),
        orders |-> ct.orders,
        drawn |-> ct.drawn]

\* A frame without some of its columns.
DropColumns(frame, cols) ==
    [columns |-> frame.columns \ cols,
     rows |-> [i \in DOMAIN frame.rows |->
                 [c \in DOMAIN frame.rows[i] \ cols |-> frame.rows[i][c]]]]

\* Orders of at most one row: an order date, a ship date that is null, the
\* same day or MaxLead days later, a category and the lead time; and the
\* same sheets without some of the ship date, lead time, category columns.
AllMetricsOrderSheets ==
    LET rows ==
          {<<>>} \cup
          {<<[c \in {"Order Date", "Ship Date", "category"} |->
                 CASE c = "Order Date" -> Cell(1)
                   [] c = "Ship Date" -> ship
                   [] OTHER -> cat]>> :
              ship \in {Null, Cell(1), Cell(1 + MaxLead)},
              cat \in OrderCategories}
    IN {DropColumns(ProcessOrdersData(
                       [columns |-> {"Order Date", "Ship Date", "category"},
                        rows |-> rs]), cols) :
           rs \in rows,
           cols \in SUBSET {"Ship Date", "Lead Time (Days)", "category"}}

\* Enriched inventory of at most one row, the frame without columns and a
\* frame that was never enriched.
AllMetricsInventoryFrames ==
    InventoryFrames(1) \cup
    {[columns |-> SourceFields, rows |-> rs] : rs \in {<<SourceRow(1, 1, 1)>>}}

\* Thresholds pd.cut accepts, and thresholds it rejects.
AllMetricsThresholds ==
    {[excellent |-> 1, good |-> 2], [excellent |-> 2, good |-> 1]}

InitAllMetrics ==
    /\ df_orders \in AllMetricsOrderSheets
    /\ LEAD_TIME_THRESHOLDS \in AllMetricsThresholds
    /\ lead_stats = None
    /\ df_inventory \in AllMetricsInventoryFrames
    /\ df_returns \in ReturnSheets(1)
    /\ FILL_RATE_THRESHOLDS = [excellent |-> 95, good |-> 85, poor |-> 70]
    /\ days_delta = None
    /\ metrics = None
    /\ IdleSim
    /\ IdleEnrich

\* compute_all_metrics(df_orders, df_inventory, df_returns)
ComputeAllMetrics ==
    /\ metrics = None
    /\ \E deltas \in DeltaArrays(Len(df_orders.rows)) :
          LET call == AllMetricsCall(df_orders, df_inventory, df_returns,
                                     LEAD_TIME_THRESHOLDS, FILL_RATE_THRESHOLDS,
                                     deltas)
          IN /\ metrics' = call.value
             /\ df_orders' = call.orders
             /\ days_delta' = call.drawn
    /\ UNCHANGED <<LEAD_TIME_THRESHOLDS, lead_stats, df_inventory, df_returns,
                   FILL_RATE_THRESHOLDS>>
    /\ UNCHANGED <<simVars, enrichVars>>

SpecAllMetrics == InitAllMetrics /\ [][ComputeAllMetrics]_vars

\* What each call needs of its arguments in order not to fail.
LeadTimeInputsValid ==
    "Lead Time (Days)" \in df_orders.columns /\ BinsIncrease(LEAD_TIME_THRESHOLDS)
CycleTimeInputsValid ==
    IF HasShipDate(df_orders) THEN "Order Date" \in df_orders.columns
    ELSE LeadTimeInputsValid
TurnoverInputsValid == TurnoverColumns \subseteq df_inventory.columns
FillRateInputsValid == FillRateColumns \subseteq df_inventory.columns

\* C13: compute_all_metrics returns a bundle with exactly the six keys
\* lead_time, cycle_time, inventory_turnover, fill_rate, category, returns;
\* a sub-metric that fails has None under its key, and every sub-metric
\* whose own inputs are valid has its result there, whatever the others did.
C13_BundleIsolation ==
    metrics # None =>
        /\ metrics # ReturnedNone
        /\ DOMAIN metrics = MetricKeys
        /\ (metrics.lead_time # ReturnedNone) <=> LeadTimeInputsValid
        /\ (metrics.cycle_time # ReturnedNone) <=> CycleTimeInputsValid
        /\ (metrics.inventory_turnover # ReturnedNone) <=> TurnoverInputsValid
        /\ (metrics.fill_rate # ReturnedNone) <=> FillRateInputsValid
        /\ (metrics.category # ReturnedNone) <=>
              CategoryInputsValid(df_orders, df_inventory)
        /\ metrics.returns # ReturnedNone

\* A bundle in which lead_time alone failed: pd.cut rejected the thresholds,
\* and the other five sub-metrics were computed.
C13_Witness ==
    /\ metrics # None /\ metrics # ReturnedNone
    /\ metrics.lead_time = ReturnedNone
    /\ \A k \in MetricKeys \ {"lead_time"} : metrics[k] # ReturnedNone
    /\ Len(df_orders.rows) >= 1 /\ Len(df_inventory.rows) >= 1

\* C14: no analytics call changes the orders, inventory or returns frame it
\* was handed: each has the same columns and the same values after the call.
C14_InputsUntouched ==
    [][/\ df_orders' = df_orders
       /\ df_inventory' = df_inventory
       /\ df_returns' = df_returns]_vars

(***************************************************************************)
(* Two runs of simulate_inventory_activity under one seed: the catalog and *)
(* the settings stay, the random source is seeded again, and the clock is  *)
(* read again.                                                             *)
(***************************************************************************)
\* Days between the two readings of datetime.now().
ClockAdvance == {0, 1}

\* random.seed(seed) with the seed of the first run, then the second call.
Rerun ==
    /\ pc = "done" /\ previous_results = <<>>
    /\ previous_results' = <<result>>
    /\ rng' = [rng EXCEPT !.pos = 0]
    /\ \E later \in ClockAdvance : now_day' = now_day + later
    /\ pc' = "run"
    /\ item_idx' = 0
    /\ day' = IF impl = "ingestor" THEN 0 ELSE -1
    /\ base_demand' = 0
    /\ inventory_records' = <<>>
    /\ stock_today' = 0
    /\ stock_samples' = <<>>
    /\ result' = None
    /\ UNCHANGED <<impl, product_df, simulation_days, RESTOCKING_FREQUENCY,
                   DEMAND_VARIABILITY, worker_draws>>
    /\ UNCHANGED <<enrichVars, leadVars, aggVars>>

NextTwoRuns == Next \/ Rerun

SpecTwoRuns == Init /\ [][NextTwoRuns]_vars

\* C15: two runs over the same catalog with the same settings and the same
\* seed of the random source return identical record sequences.
C15_Reproducible ==
    (pc = "done" /\ Len(previous_results) = 1) =>
        result = previous_results[1]

(***************************************************************************)
(* The stock recurrence and the restocking days of a run.                  *)
(***************************************************************************)
\* random.randint(100, 300) in api_ingestor, random.randint(50, 200) in
\* api_connector
InitialStockRange ==
    IF impl = "ingestor" THEN IngestorStockLo..IngestorStockHi
    ELSE ConnectorStockLo..ConnectorStockHi

\* random.randint(75, 150) in api_ingestor, random.randint(50, 100) in
\* api_connector
RestockRange ==
    IF impl = "ingestor" THEN IngestorRestockLo..IngestorRestockHi
    ELSE ConnectorRestockLo..ConnectorRestockHi

\* The records appended for a product on a day.
RecordsFor(id, d) ==
    {i \in DOMAIN inventory_records :
        inventory_records[i].product_id = id /\ DayOf(inventory_records[i]) = d}

\* C16: in a run over distinct product ids, every record of a day d > 0 has
\* stock_level = max(0, stock_level(d-1) - daily_demand(d) + restock_amount(d))
\* with stock_level(d-1) the recorded value of the same product's record of
\* the day before, and every record of day 0 has
\* stock_level = max(0, s0 - daily_demand(0)) with s0 the stock drawn from
\* the initial-stock range.
C16_StockRecurrence ==
    (ValidHorizon /\ ValidFrequency /\ DistinctIds) =>
        \A i \in DOMAIN inventory_records :
            LET r == inventory_records[i] IN
            /\ DayOf(r) > 0 =>
                  \E j \in RecordsFor(r.product_id, DayOf(r) - 1) :
                      r.stock_level =
                          Max(0, inventory_records[j].stock_level
                                    - r.daily_demand + r.restock_amount)
            /\ (DayOf(r) = 0 /\ i = Len(inventory_records)) =>
                  /\ stock_today \in InitialStockRange
                  /\ r.stock_level = Max(0, stock_today - r.daily_demand)

\* C17: in every record of a day d in 1..simulation_days-1 that the
\* restocking frequency divides, restocked is TRUE and restock_amount is a
\* value of the restock range, whatever the stock; in every record of any
\* other day, day 0 included, restocked is FALSE, also when stock_level is 0.
C17_PeriodicRestocking ==
    (ValidHorizon /\ ValidFrequency) =>
        \A r \in ProducedRecords :
            IF DayOf(r) >= 1 /\ DayOf(r) % RESTOCKING_FREQUENCY = 0
            THEN r.restocked /\ r.restock_amount \in RestockRange
            ELSE ~ r.restocked

\* C18: compute_lead_time_stats grades every non-null lead time L >= 0, for
\* thresholds 0 < excellent < good, as Excellent when L <= excellent (L = 0
\* included), Good when excellent < L <= good, Poor when L > good.
C18_GradeBoundaries ==
    StatsComputed =>
        \A i \in WithLeadTime :
            LET lead == df_orders.rows[i]["Lead Time (Days)"][1]
                grade == df_orders.rows[i]["lead_time_grade"]
            IN lead >= 0 =>
                  grade = IF lead <= LEAD_TIME_THRESHOLDS.excellent
                          THEN "Excellent"
                          ELSE IF lead <= LEAD_TIME_THRESHOLDS.good
                          THEN "Good" ELSE "Poor"

(***************************************************************************)
(* compute_cycle_time(df_orders) on its own.                               *)
(***************************************************************************)
\* The processed order sheets, and the same sheets without their ship date
\* column (orders that come with a lead time only).
CycleTimeOrderSheets(max) ==
    LET processed == {ProcessOrdersData(sheet) : sheet \in OrderSheets(max)} IN
    processed \cup {DropColumns(frame, {"Ship Date"}) : frame \in processed}

InitCycleTime ==
    /\ df_orders \in CycleTimeOrderSheets(MaxOrders)
    /\ LEAD_TIME_THRESHOLDS \in AllMetricsThresholds
    /\ lead_stats = None
    /\ df_inventory = DataFrame(<<>>)
    /\ df_returns = None
    /\ FILL_RATE_THRESHOLDS = [excellent |-> 95, good |-> 85, poor |-> 70]
    /\ days_delta = None
    /\ metrics = None
    /\ IdleSim
    /\ IdleEnrich

\* compute_cycle_time(df_orders)
ComputeCycleTime ==
    /\ metrics = None
    /\ \E deltas \in DeltaArrays(Len(df_orders.rows)) :
          LET call == CycleTimeCall(df_orders, LEAD_TIME_THRESHOLDS, deltas) IN
          /\ metrics' = call.value
          /\ df_orders' = call.orders
          /\ days_delta' = call.drawn
    /\ UNCHANGED <<LEAD_TIME_THRESHOLDS, lead_stats, df_inventory, df_returns,
                   FILL_RATE_THRESHOLDS>>
    /\ UNCHANGED <<simVars, enrichVars>>

SpecCycleTime == InitCycleTime /\ [][ComputeCycleTime]_vars

\* C19: on orders without a ship date column, compute_cycle_time returns
\* what compute_lead_time_stats returns on those orders (None when the lead
\* time column is missing too), adds no delivery date and draws no random
\* number.
C19_FallbackToLeadTime ==
    [][(metrics = None /\ metrics' # None /\ ~ HasShipDate(df_orders)) =>
          /\ metrics' =
                LeadTimeStatsCall(df_orders, LEAD_TIME_THRESHOLDS).value
          /\ "Lead Time (Days)" \notin df_orders.columns =>
                metrics' = ReturnedNone
          /\ "Delivery Date" \notin df_orders'.columns
          /\ days_delta' = None]_vars

\* The call has returned statistics for several orders that carry a lead
\* time and no ship date.
C19_Witness ==
    /\ metrics # None /\ metrics # ReturnedNone
    /\ ~ HasShipDate(df_orders)
    /\ Len(df_orders.rows) >= 2
    /\ \E i \in DOMAIN df_orders.rows :
          df_orders.rows[i]["Lead Time (Days)"] # Null

\* The rows with both an order date and a ship date.
Shipped ==
    {i \in DOMAIN df_orders.rows :
        /\ df_orders.rows[i]["Ship Date"] # Null
        /\ df_orders.rows[i]["Order Date"] # Null}

\* ship_date - order_date of a row.
ShipDelay(i) ==
    df_orders.rows[i]["Ship Date"][1] - df_orders.rows[i]["Order Date"][1]

\* C20: after compute_cycle_time on orders with a ship date column, every
\* order that has a ship date has a cycle time of (ship_date - order_date)
\* + k days with k in 2..5, and min_cycle_time >= min(ship_date - order_date)
\* + 2 and max_cycle_time <= max(ship_date - order_date) + 5.
C20_CycleTimeRange ==
    (metrics # None /\ metrics # ReturnedNone /\ HasShipDate(df_orders)) =>
        /\ \A i \in Shipped :
              /\ df_orders.rows[i]["Cycle Time (Days)"] # Null
              /\ df_orders.rows[i]["Cycle Time (Days)"][1] - ShipDelay(i)
                    \in 2..5
        /\ Shipped # {} =>
              LET delays == {ShipDelay(i) : i \in Shipped} IN
              /\ IsFinite(metrics.min_cycle_time)
              /\ IsFinite(metrics.max_cycle_time)
              /\ metrics.min_cycle_time[1] >=
                    (SetMin(delays) + 2) * metrics.min_cycle_time[2]
              /\ metrics.max_cycle_time[1] <=
                    (SetMax(delays) + 5) * metrics.max_cycle_time[2]

\* Cycle times have been computed for two shipped orders, one delivered two
\* days after it shipped and one five days after.
C20_Witness ==
    /\ metrics # None /\ metrics # ReturnedNone /\ HasShipDate(df_orders)
    /\ \E i, j \in Shipped :
          /\ df_orders.rows[i]["Cycle Time (Days)"][1] - ShipDelay(i) = 2
          /\ df_orders.rows[j]["Cycle Time (Days)"][1] - ShipDelay(j) = 5

(***************************************************************************)
(* The day passes of the products in any order.  A pass is the body of the *)
(* day loop for one product and one day; it reads and appends to the one   *)
(* inventory_records list.  api_ingestor runs the passes product by        *)
(* product, api_connector day by day; here a product's passes keep their   *)
(* order and the passes of different products interleave freely.           *)
(***************************************************************************)
\* api_ingestor: the record one pass appends, from the running base demand,
\* the entry the lookup gave and the random numbers the pass takes.
IngestorPass(item, d, base, prev_entry, draw) ==
    LET simulation_date == SimulationStart + d
        demand == IngestorDemand(base, SeasonalPct(simulation_date), draw.noise)
        start == IF d = 0 \/ prev_entry = None
                 THEN draw.stock ELSE prev_entry.stock_level
        due == IngestorRestockDue(d, RESTOCKING_FREQUENCY)
        restock_qty == IF due THEN draw.refill ELSE 0
    IN Record(item, simulation_date, demand,
              ClampStock(start - demand + restock_qty), restock_qty, due,
              draw.price_pct)

\* api_connector: the record one pass appends.
ConnectorPass(item, d, prev_entry, draw) ==
    LET simulation_date == SimulationStart + d
        adjusted_demand == ConnectorDemand(draw.base, draw.noise)
        start == IF d = 0 \/ prev_entry = None
                 THEN draw.stock ELSE prev_entry.stock_level
        due == ConnectorRestockDue(d, RESTOCKING_FREQUENCY)
        restock_qty == IF due THEN draw.refill ELSE 0
    IN Record(item, simulation_date, adjusted_demand,
              ClampStock(start - adjusted_demand + restock_qty), restock_qty,
              due, draw.price_pct)

\* api_ingestor: base_demand at the start of the pass of day d, in
\* thousandths: base_demand *= (trend_factor ** (1 / simulation_days)) after
\* every pass.
RECURSIVE IngestorBaseOn(_, _)
IngestorBaseOn(first, d) ==
    IF d = 0 THEN first
    ELSE (IngestorBaseOn(first, d - 1) * TrendStepMilli(simulation_days))
            \div 1000

\* Two products take turns.
InitInterleaved ==
    /\ impl \in {"ingestor", "connector"}
    /\ product_df \in {catalog \in Catalogs : Len(catalog) = 2}
    /\ simulation_days \in 1..MaxDays
    /\ RESTOCKING_FREQUENCY \in 1..MaxFreq
    /\ DEMAND_VARIABILITY \in Variabilities
    /\ now_day \in NowDays
    /\ pc = "run"
    /\ item_idx = 0
    /\ day = 0
    /\ base_demand = 0
    /\ inventory_records = <<>>
    /\ stock_today = 0
    /\ result = None
    /\ rng = [tape |-> <<>>, pos |-> 0]
    /\ previous_results = <<>>
    /\ stock_samples = <<>>
    /\ worker_draws = [p \in DOMAIN product_df |-> <<>>]
    /\ IdleEnrich
    /\ IdleLead
    /\ IdleAgg

\* api_ingestor: the next pass of the p-th product.
IngestorWorkerDay(p) ==
    /\ pc = "run" /\ impl = "ingestor"
    /\ Len(worker_draws[p]) < simulation_days
    /\ LET item == product_df[p]
           d == Len(worker_draws[p])
           prev_entry == IngestorPrevEntry(item.id)
       IN
       \E b \in HighDraw(IngestorBaseDemandLo, IngestorBaseDemandHi),
          noise \in NoiseDraws(DEMAND_VARIABILITY),
          drawn \in LowDraw(IngestorStockLo, IngestorStockHi),
          refill \in LowDraw(IngestorRestockLo, IngestorRestockHi),
          price_pct \in PriceFactorDraws :
            LET draw == [base |-> IF d = 0 THEN b ELSE worker_draws[p][1].base,
                         noise |-> noise, stock |-> drawn, refill |-> refill,
                         price_pct |-> price_pct]
                base == IngestorBaseOn(draw.base * 1000, d)
            IN
            /\ inventory_records' =
                  Append(inventory_records,
                         IngestorPass(item, d, base, prev_entry, draw))
            /\ worker_draws' = [worker_draws EXCEPT ![p] = Append(@, draw)]
            /\ stock_samples' = SamplesAfter(item.id, d, prev_entry)
    /\ UNCHANGED <<impl, product_df, simulation_days, RESTOCKING_FREQUENCY,
                   DEMAND_VARIABILITY, now_day, pc, item_idx, day, base_demand,
                   stock_today, result, rng, previous_results>>
    /\ UNCHANGED <<enrichVars, leadVars, aggVars>>

\* api_connector: the next pass of the p-th product.
ConnectorWorkerDay(p) ==
    /\ pc = "run" /\ impl = "connector"
    /\ Len(worker_draws[p]) < simulation_days
    /\ LET item == product_df[p]
           d == Len(worker_draws[p])
           prev_entry == ConnectorPrevEntry(item.id, SimulationStart + d)
       IN
       \E base \in HighDraw(ConnectorBaseDemandLo, ConnectorBaseDemandHi),
          noise \in NoiseDraws(DEMAND_VARIABILITY),
          drawn \in LowDraw(ConnectorStockLo, ConnectorStockHi),
          refill \in LowDraw(ConnectorRestockLo, ConnectorRestockHi),
          price_pct \in PriceFactorDraws :
            LET draw == [base |-> base, noise |-> noise, stock |-> drawn,
                         refill |-> refill, price_pct |-> price_pct]
            IN
            /\ inventory_records' =
                  Append(inventory_records,
                         ConnectorPass(item, d, prev_entry, draw))
            /\ worker_draws' = [worker_draws EXCEPT ![p] = Append(@, draw)]
            /\ stock_samples' = SamplesAfter(item.id, d, prev_entry)
    /\ UNCHANGED <<impl, product_df, simulation_days, RESTOCKING_FREQUENCY,
                   DEMAND_VARIABILITY, now_day, pc, item_idx, day, base_demand,
                   stock_today, result, rng, previous_results>>
    /\ UNCHANGED <<enrichVars, leadVars, aggVars>>

NextInterleaved ==
    \E p \in DOMAIN product_df : IngestorWorkerDay(p) \/ ConnectorWorkerDay(p)

SpecInterleaved == InitInterleaved /\ [][NextInterleaved]_vars

\* The first n records of the p-th product in a run that takes the products
\* one after the other: the entry a pass of a day d > 0 starts from is the
\* record the pass before it appended.
RECURSIVE SequentialChain(_, _)
SequentialChain(p, n) ==
    IF n = 0 THEN <<>>
    ELSE LET before == SequentialChain(p, n - 1)
             prev_entry == IF n = 1 THEN None ELSE before[n - 1]
             draw == worker_draws[p][n]
             base == IngestorBaseOn(worker_draws[p][1].base * 1000, n - 1)
         IN Append(before,
                   IF impl = "ingestor"
                   THEN IngestorPass(product_df[p], n - 1, base, prev_entry,
                                     draw)
                   ELSE ConnectorPass(product_df[p], n - 1, prev_entry, draw))

\* The records of a product, in the order they were appended.
ChainOf(id) == SelectSeq(inventory_records, LAMBDA r : r.product_id = id)

\* C21: for products with distinct ids, in whatever order the day passes of
\* the products interleave, the records of each product are the records a
\* product-by-product run produces from the same random numbers of that
\* product: the stock of a day d > 0 comes from the same product's record of
\* day d - 1 alone.
C21_ChainsIndependent ==
    DistinctIds =>
        \A p \in DOMAIN product_df :
            ChainOf(product_df[p].id) =
                SequentialChain(p, Len(worker_draws[p]))

\* Both products have finished a run of several days whose passes
\* alternated, and their stocks differ on the last day.
C21_Witness ==
    /\ DistinctIds /\ simulation_days >= 2
    /\ \A p \in DOMAIN product_df : Len(worker_draws[p]) = simulation_days
    /\ \E i \in DOMAIN inventory_records :
          /\ i + 2 <= Len(inventory_records)
          /\ inventory_records[i].product_id
                # inventory_records[i + 1].product_id
          /\ inventory_records[i + 1].product_id
                # inventory_records[i + 2].product_id
          /\ DayOf(inventory_records[i + 2]) > 0
    /\ \E i, j \in DOMAIN inventory_records :
          /\ inventory_records[i].product_id # inventory_records[j].product_id
          /\ DayOf(inventory_records[i]) = simulation_days - 1
          /\ DayOf(inventory_records[j]) = simulation_days - 1
          /\ inventory_records[i].stock_level
                # inventory_records[j].stock_level

(***************************************************************************)
(* compute_fill_rate_stats(df_inventory) on its own.                       *)
(***************************************************************************)
\* FILL_RATE_THRESHOLDS of the settings, in percent.
FillRateThresholdChoices ==
    {[excellent |-> 95, good |-> 85, poor |-> 70],
     [excellent |-> 90, good |-> 80, poor |-> 60]}

InitFillRate ==
    /\ df_inventory \in InventoryFrames(MaxRows)
    /\ FILL_RATE_THRESHOLDS \in FillRateThresholdChoices
    /\ df_returns = None
    /\ days_delta = None
    /\ metrics = None
    /\ IdleSim
    /\ IdleEnrich
    /\ IdleLead

\* compute_fill_rate_stats(df_inventory)
ComputeFillRateStats ==
    /\ metrics = None
    /\ metrics' = FillRateStats(df_inventory, FILL_RATE_THRESHOLDS)
    /\ UNCHANGED <<df_inventory, df_returns, FILL_RATE_THRESHOLDS, days_delta>>
    /\ UNCHANGED <<simVars, enrichVars, leadVars>>

SpecFillRate == InitFillRate /\ [][ComputeFillRateStats]_vars

\* The product ids with at least one record whose stockout_risk is true.
AtRiskProducts(inventory) ==
    {inventory.rows[i].product_id :
        i \in {j \in DOMAIN inventory.rows : inventory.rows[j].stockout_risk}}

\* C22: the at_risk_count compute_fill_rate_stats reports is the number of
\* distinct product ids that have at least one record with stockout_risk
\* true, and it is at most product_total.
C22_AtRiskProductCount ==
    (metrics # None /\ metrics # ReturnedNone) =>
        /\ metrics.at_risk_count = Cardinality(AtRiskProducts(df_inventory))
        /\ metrics.at_risk_count <= metrics.product_total

(***************************************************************************)
(* The draws from the initial-stock range in a run.                        *)
(***************************************************************************)
\* The passes of a product that drew its stock from the initial-stock range.
SamplesOf(id) ==
    {k \in DOMAIN stock_samples : stock_samples[k].product_id = id}

\* C23: in a run, every record of a day d > 0 has a record of the same
\* product for day d - 1, no pass of a day d > 0 draws its stock from the
\* initial-stock range, and with distinct product ids each product draws
\* from that range exactly once, on day 0.
C23_InitialStockOnce ==
    /\ \A i \in DOMAIN inventory_records :
          LET r == inventory_records[i] IN
          DayOf(r) > 0 => RecordsFor(r.product_id, DayOf(r) - 1) # {}
    /\ \A k \in DOMAIN stock_samples : stock_samples[k].day = 0
    /\ DistinctIds =>
          \A p \in DOMAIN product_df :
              LET id == product_df[p].id IN
              /\ Cardinality(SamplesOf(id)) <= 1
              /\ RecordsFor(id, 0) # {} => Cardinality(SamplesOf(id)) = 1
              /\ (Returned /\ ValidHorizon) => Cardinality(SamplesOf(id)) = 1

\* A run over two products and several days has returned: each product drew
\* its initial stock once, and the last pass started from a recorded stock.
C23_Witness ==
    /\ Returned /\ DistinctIds
    /\ Len(product_df) >= 2 /\ simulation_days >= 2
    /\ Len(stock_samples) = Len(product_df)
    /\ \E i \in DOMAIN inventory_records :
          /\ DayOf(inventory_records[i]) = simulation_days - 2
          /\ inventory_records[i].stock_level = stock_today
          /\ stock_today \notin InitialStockRange

(***************************************************************************)
(* The stock between two restocks.                                         *)
(***************************************************************************)
\* C24: with a restocking frequency >= 1 and a demand variability in 0..1,
\* every record of a day d > 0 that the restocking frequency does not divide
\* has a stock_level that is at most the stock_level recorded for the same
\* product on day d - 1, and is 0 when that stock_level is 0.
C24_NoIncreaseBetweenRestocks ==
    (ValidFrequency /\ ValidVariability) =>
        \A i \in DOMAIN inventory_records :
            LET r == inventory_records[i] IN
            (DayOf(r) > 0 /\ DayOf(r) % RESTOCKING_FREQUENCY # 0) =>
                \E j \in RecordsFor(r.product_id, DayOf(r) - 1) :
                    /\ r.stock_level <= inventory_records[j].stock_level
                    /\ inventory_records[j].stock_level = 0 =>
                          r.stock_level = 0

\* A run has returned in which a product's stock fell on a day without a
\* restock, and fell to 0 on a later day without a restock where the demand
\* was more than the stock left.
C24_Witness ==
    /\ Returned /\ ValidFrequency /\ ValidVariability /\ DistinctIds
    /\ \E i, j, k \in DOMAIN inventory_records :
          LET a == inventory_records[i]
              b == inventory_records[j]
              c == inventory_records[k]
          IN
          /\ a.product_id = b.product_id /\ b.product_id = c.product_id
          /\ DayOf(b) = DayOf(a) + 1 /\ DayOf(c) = DayOf(b) + 1
          /\ ~ b.restocked /\ ~ c.restocked
          /\ 0 < b.stock_level /\ b.stock_level < a.stock_level
          /\ c.stock_level = 0 /\ c.daily_demand > b.stock_level

=============================================================================
